---- MODULE Spec2Model ----
(***************************************************************************)
(* Model of app/core/auth.py: the three bearer-token verifiers             *)
(* (verify_api_key, verify_app_key, verify_public_key), the shared matcher *)
(* _match_public_key and the four configuration accessors.                 *)
(*                                                                         *)
(* Python strings are sequences of one-character strings.  Python values   *)
(* (config values, the optional credentials object) are records            *)
(* [tag, s, b]; results are records [ok, value, status_code, detail,       *)
(* headers].                                                               *)
(***************************************************************************)
EXTENDS Integers, Sequences, FiniteSets, TLC

VARIABLES cfg, prevCfg, calls, last, matched

vars == <<cfg, prevCfg, calls, last, matched>>

(***************************************************************************)
(* Bounds                                                                  *)
(***************************************************************************)
\* largest number of whitespace characters put around a configured or
\* presented string
MaxPad == 1
\* the count of reloads seen by one in-flight call saturates here
MaxReloadsTracked == 2

(***************************************************************************)
(* Python values                                                           *)
(***************************************************************************)
Missing == [tag |-> "missing", s |-> <<>>, b |-> FALSE]
PyNone == [tag |-> "none", s |-> <<>>, b |-> FALSE]
PyStr(str) == [tag |-> "str", s |-> str, b |-> FALSE]
PyBool(flag) == [tag |-> "bool", s |-> <<>>, b |-> flag]
\* HTTPAuthorizationCredentials(scheme="Bearer", credentials=str)
Credentials(str) == [tag |-> "cred", s |-> str, b |-> FALSE]

\* Python truthiness: bool(v), `not v`, `v or ...`
Truthy(v) ==
  CASE v.tag = "str" -> v.s # <<>>
    [] v.tag = "bool" -> v.b
    [] v.tag = "cred" -> TRUE
    [] OTHER -> FALSE

(***************************************************************************)
(* Strings                                                                 *)
(***************************************************************************)
IsSpace(c) == c \in {" ", "\t"}

RECURSIVE LStrip(_)
LStrip(str) ==
  IF str # <<>> /\ IsSpace(Head(str)) THEN LStrip(Tail(str)) ELSE str

RECURSIVE RStrip(_)
RStrip(str) ==
  IF str # <<>> /\ IsSpace(str[Len(str)])
  THEN RStrip(SubSeq(str, 1, Len(str) - 1))
  ELSE str

\* str.strip()
Strip(str) == RStrip(LStrip(str))

\* str.startswith(prefix)
StartsWith(str, prefix) ==
  /\ Len(str) >= Len(prefix)
  /\ SubSeq(str, 1, Len(prefix)) = prefix

\* the code point of a character (ASCII)
Ord(c) ==
  CASE c = "\t" -> 9 [] c = " " -> 32 [] c = "-" -> 45 [] c = ":" -> 58
    [] c = "0" -> 48 [] c = "1" -> 49 [] c = "2" -> 50 [] c = "3" -> 51
    [] c = "4" -> 52 [] c = "5" -> 53 [] c = "6" -> 54 [] c = "7" -> 55
    [] c = "8" -> 56 [] c = "9" -> 57
    [] c = "a" -> 97 [] c = "b" -> 98 [] c = "c" -> 99 [] c = "d" -> 100
    [] c = "e" -> 101 [] c = "f" -> 102 [] c = "g" -> 103 [] c = "i" -> 105
    [] c = "k" -> 107 [] c = "l" -> 108 [] c = "o" -> 111 [] c = "p" -> 112
    [] c = "r" -> 114 [] c = "u" -> 117 [] c = "x" -> 120

HexDigits ==
  <<"0", "1", "2", "3", "4", "5", "6", "7", "8", "9", "a", "b", "c", "d", "e", "f">>

\* the digest state after absorbing the bytes of str: a 16-bit polynomial
\* digest stands for SHA-256 (deterministic, no key, no nonce)
RECURSIVE Absorb(_, _)
Absorb(str, h) ==
  IF str = <<>> THEN h
  ELSE Absorb(Tail(str), (h * 31 + Ord(Head(str))) % 65536)

\* hashlib.sha256(bytes).hexdigest(): fixed width, lowercase hexadecimal
Sha256Hex(bytes) ==
  LET h == Absorb(bytes, 7)
  IN << HexDigits[((h \div 4096) % 16) + 1], HexDigits[((h \div 256) % 16) + 1],
        HexDigits[((h \div 16) % 16) + 1], HexDigits[(h % 16) + 1] >>

\* the literals of the hash scheme
HashMarker ==
  <<"g", "r", "o", "k", "2", "a", "p", "i", "-", "p", "u", "b", "l", "i", "c", ":">>
PublicPrefix == <<"p", "u", "b", "l", "i", "c", "-">>

(***************************************************************************)
(* Configuration defaults and accessors                                    *)
(***************************************************************************)
DEFAULT_API_KEY == PyStr(<<>>)
DEFAULT_APP_KEY == PyStr(<<"g", "r", "o", "k", "2", "a", "p", "i">>)
DEFAULT_PUBLIC_KEY == PyStr(<<>>)
DEFAULT_PUBLIC_ENABLED == PyBool(FALSE)

\* get_config(key, default) of the configuration source: the stored value,
\* or the default when the setting is missing
GetConfig(config, key, default) ==
  IF config[key].tag = "missing" THEN default ELSE config[key]

\* `value or ""`
OrEmpty(v) == IF Truthy(v) THEN v.s ELSE <<>>

get_admin_api_key(config) == OrEmpty(GetConfig(config, "api_key", DEFAULT_API_KEY))

get_app_key(config) == OrEmpty(GetConfig(config, "app_key", DEFAULT_APP_KEY))

\* a variant that keeps serving the value it read before the latest reload
get_public_api_key_cached(config) ==
  OrEmpty(GetConfig(IF prevCfg # <<>> THEN prevCfg[1] ELSE config, "public_key",
                    DEFAULT_PUBLIC_KEY))

get_public_api_key(config) ==
  OrEmpty(GetConfig(config, "public_key", DEFAULT_PUBLIC_KEY))

is_public_enabled(config) ==
  Truthy(GetConfig(config, "public_enabled", DEFAULT_PUBLIC_ENABLED))

(***************************************************************************)
(* The matcher                                                             *)
(***************************************************************************)
_hash_public_key(key) == Sha256Hex(HashMarker \o key)

\* a variant that compares with the secret as configured, not trimmed
_match_public_key_untrimmed(credentials, public_key) ==
  IF public_key = <<>> THEN FALSE
  ELSE IF credentials = public_key THEN TRUE
  ELSE IF StartsWith(credentials, PublicPrefix)
          /\ credentials = PublicPrefix \o _hash_public_key(public_key)
       THEN TRUE
  ELSE FALSE

_match_public_key(credentials, public_key) ==
  IF public_key = <<>> THEN FALSE
  ELSE LET normalized == Strip(public_key)
       IN IF normalized = <<>> THEN FALSE
          ELSE IF credentials = normalized THEN TRUE
          ELSE IF StartsWith(credentials, PublicPrefix)
                  /\ credentials = PublicPrefix \o _hash_public_key(normalized)
               THEN TRUE
          ELSE FALSE

(***************************************************************************)
(* Results                                                                 *)
(***************************************************************************)
HTTP_401_UNAUTHORIZED == 401

BearerChallenge == {<<"WWW-Authenticate", "Bearer">>}

\* `return value`
Return(value) ==
  [ok |-> TRUE, value |-> value, status_code |-> 0, detail |-> "", headers |-> {}]

\* `raise HTTPException(status_code=..., detail=..., headers=...)`
HTTPException(status_code, detail, headers) ==
  [ok |-> FALSE, value |-> PyNone, status_code |-> status_code,
   detail |-> detail, headers |-> headers]

\* the handler has not returned yet: it goes on to its next configuration read
Pending ==
  [ok |-> FALSE, value |-> PyNone, status_code |-> 0, detail |-> "pending",
   headers |-> {}]

(***************************************************************************)
(* verify_api_key                                                          *)
(***************************************************************************)
\* lines 88-100: what the handler decides once it has read api_key
verify_api_key_first(auth, api_key) ==
  IF api_key = <<>> THEN Return(PyNone)
  ELSE IF ~Truthy(auth)
       THEN HTTPException(HTTP_401_UNAUTHORIZED, "Missing authentication token",
                          BearerChallenge)
  ELSE IF auth.s = api_key THEN Return(PyStr(auth.s))
  ELSE Pending

\* a variant without the public_key fallback
verify_api_key_second_admin_only(auth, public_key) ==
  HTTPException(HTTP_401_UNAUTHORIZED, "Invalid authentication token",
                BearerChallenge)

\* lines 104-111: what it decides once it has read public_key
verify_api_key_second(auth, public_key) ==
  IF _match_public_key(auth.s, public_key) THEN Return(PyStr(auth.s))
  ELSE HTTPException(HTTP_401_UNAUTHORIZED, "Invalid authentication token",
                     BearerChallenge)

\* the whole handler on one configuration
verify_api_key(auth, config) ==
  LET first == verify_api_key_first(auth, get_admin_api_key(config))
  IN IF first # Pending THEN first
     ELSE verify_api_key_second(auth, get_public_api_key(config))

(***************************************************************************)
(* verify_app_key                                                          *)
(***************************************************************************)
\* a variant that takes the login secret through the matcher, as the other
\* two tiers take the public key
verify_app_key_matched(auth, config) ==
  LET app_key == get_app_key(config)
  IN IF app_key = <<>>
     THEN HTTPException(HTTP_401_UNAUTHORIZED, "App key is not configured",
                        BearerChallenge)
     ELSE IF ~Truthy(auth)
          THEN HTTPException(HTTP_401_UNAUTHORIZED, "Missing authentication token",
                             BearerChallenge)
     ELSE IF ~_match_public_key(auth.s, app_key)
          THEN HTTPException(HTTP_401_UNAUTHORIZED, "Invalid authentication token",
                             BearerChallenge)
     ELSE Return(PyStr(auth.s))

verify_app_key(auth, config) ==
  LET app_key == get_app_key(config)
  IN IF app_key = <<>>
     THEN HTTPException(HTTP_401_UNAUTHORIZED, "App key is not configured",
                        BearerChallenge)
     ELSE IF ~Truthy(auth)
          THEN HTTPException(HTTP_401_UNAUTHORIZED, "Missing authentication token",
                             BearerChallenge)
     ELSE IF auth.s # app_key
          THEN HTTPException(HTTP_401_UNAUTHORIZED, "Invalid authentication token",
                             BearerChallenge)
     ELSE Return(PyStr(auth.s))

(***************************************************************************)
(* verify_public_key                                                       *)
(***************************************************************************)
\* a variant that lets the enabled flag open the tier before it looks at the key
verify_public_key_decide_flag_first(auth, public_key, public_enabled) ==
  IF public_enabled THEN Return(PyNone)
  ELSE IF public_key = <<>>
       THEN HTTPException(HTTP_401_UNAUTHORIZED, "Public access is disabled",
                          BearerChallenge)
  ELSE IF ~Truthy(auth)
       THEN HTTPException(HTTP_401_UNAUTHORIZED, "Missing authentication token",
                          BearerChallenge)
  ELSE IF _match_public_key(auth.s, public_key) THEN Return(PyStr(auth.s))
  ELSE HTTPException(HTTP_401_UNAUTHORIZED, "Invalid authentication token",
                     BearerChallenge)

\* a variant that answers 403 when the tier is disabled
verify_public_key_decide_forbidden(auth, public_key, public_enabled) ==
  IF public_key = <<>>
  THEN IF public_enabled THEN Return(PyNone)
       ELSE HTTPException(403, "Public access is disabled", {})
  ELSE IF ~Truthy(auth)
       THEN HTTPException(HTTP_401_UNAUTHORIZED, "Missing authentication token",
                          BearerChallenge)
  ELSE IF _match_public_key(auth.s, public_key) THEN Return(PyStr(auth.s))
  ELSE HTTPException(HTTP_401_UNAUTHORIZED, "Invalid authentication token",
                     BearerChallenge)

\* lines 159-182: what the handler decides once it has read both settings
verify_public_key_decide(auth, public_key, public_enabled) ==
  IF public_key = <<>>
  THEN IF public_enabled THEN Return(PyNone)
       ELSE HTTPException(HTTP_401_UNAUTHORIZED, "Public access is disabled",
                          BearerChallenge)
  ELSE IF ~Truthy(auth)
       THEN HTTPException(HTTP_401_UNAUTHORIZED, "Missing authentication token",
                          BearerChallenge)
  ELSE IF _match_public_key(auth.s, public_key) THEN Return(PyStr(auth.s))
  ELSE HTTPException(HTTP_401_UNAUTHORIZED, "Invalid authentication token",
                     BearerChallenge)

\* the whole handler on one configuration
verify_public_key(auth, config) ==
  verify_public_key_decide(auth, get_public_api_key(config),
                           is_public_enabled(config))

(***************************************************************************)
(* Inputs                                                                  *)
(***************************************************************************)
RECURSIVE Spaces(_)
Spaces(n) == IF n = 0 THEN <<>> ELSE <<" ">> \o Spaces(n - 1)

KeyA == <<"a">>
KeyPadded == <<" ">> \o KeyA
KeyTrailing == KeyA \o <<" ">>

\* the strings a secret setting may hold: empty, whitespace only, a key, a
\* key with whitespace before or after it
SecretStrings ==
  { Spaces(i) : i \in 0 .. MaxPad } \cup { Spaces(i) \o KeyA : i \in 0 .. MaxPad }
    \cup {KeyTrailing}

StringSettings == {"api_key", "app_key", "public_key"}

\* the values of a string setting.  api_key and public_key default to "", so
\* a missing setting stands for the empty one; app_key does not, and it is
\* also given the empty string and None
ConfigStrings(key) ==
  IF key = "app_key"
  THEN {Missing, PyNone} \cup { PyStr(str) : str \in SecretStrings }
  ELSE {Missing} \cup { PyStr(str) : str \in SecretStrings \ {<<>>} }

ConfigFlags == {Missing, PyBool(TRUE), PyBool(FALSE)}

\* public-<hash> tokens: of the key, and of the key before trimming
HashForms ==
  { PublicPrefix \o _hash_public_key(KeyA),
    PublicPrefix \o _hash_public_key(KeyPadded) }

OtherStrings ==
  { PublicPrefix \o KeyA, _hash_public_key(KeyA),
    PublicPrefix \o _hash_public_key(DEFAULT_APP_KEY.s), DEFAULT_APP_KEY.s }

\* what the bearer scheme hands to a handler: None, or the token
Presented ==
  {PyNone} \cup
  { Credentials(str) :
      str \in {<<>>, <<" ">>, KeyA, KeyPadded, KeyTrailing} \cup HashForms
                \cup OtherStrings }

\* the configurations and tokens of the interleaved specification: the
\* defaults, every setting set, two that set one key and not the other, and
\* one whose secrets are whitespace only
ConcConfigs ==
  { [api_key |-> Missing, app_key |-> Missing, public_key |-> Missing,
     public_enabled |-> Missing],
    [api_key |-> PyStr(KeyPadded), app_key |-> PyStr(<<>>),
     public_key |-> PyStr(KeyA), public_enabled |-> PyBool(TRUE)],
    [api_key |-> PyStr(KeyPadded), app_key |-> Missing, public_key |-> Missing,
     public_enabled |-> PyBool(TRUE)],
    [api_key |-> Missing, app_key |-> PyStr(<<>>), public_key |-> PyStr(KeyA),
     public_enabled |-> Missing],
    [api_key |-> PyStr(<<" ">>), app_key |-> PyStr(<<" ">>),
     public_key |-> PyStr(<<" ">>), public_enabled |-> PyBool(FALSE)] }

ConcPresented == {PyNone, Credentials(KeyA)}

CallIds == {"c1", "c2"}

Ops == {"verify_api_key", "verify_app_key", "verify_public_key"}

(***************************************************************************)
(* State                                                                   *)
(***************************************************************************)
\* cfg      the configuration source's current settings
\* prevCfg  <<the settings before the latest reload>>, or <<>>
\* calls    the handlers in flight: position, token, locals, and how many
\*          reloads happened since the call began
\* last     the call that returned latest, with what it read and returned;
\*          forgotten at the next configuration change
\* matched  the latest use of _match_public_key by that call
NoConfig ==
  [api_key |-> Missing, app_key |-> Missing, public_key |-> Missing,
   public_enabled |-> Missing]

Idle ==
  [pc |-> "idle", op |-> "none", auth |-> PyNone, api_key |-> <<>>,
   public_key |-> <<>>, nre |-> 0]

NoCall ==
  [op |-> "none", auth |-> PyNone, result |-> Pending, nre |-> 0, reads |-> {},
   api_key |-> <<>>, app_key |-> <<>>, public_key |-> <<>>,
   public_enabled |-> FALSE]

NoMatch == [called |-> FALSE, credentials |-> <<>>, public_key |-> <<>>, result |-> FALSE]

Match(credentials, public_key) ==
  [called |-> TRUE, credentials |-> credentials, public_key |-> public_key,
   result |-> _match_public_key(credentials, public_key)]

Init ==
  /\ cfg = NoConfig
  /\ prevCfg = <<>>
  /\ calls = [c \in CallIds |-> Idle]
  /\ last = NoCall
  /\ matched = NoMatch

(***************************************************************************)
(* Spec: each handler runs to its end on the current configuration         *)
(***************************************************************************)
\* one setting of the configuration source is set, unset or replaced
SetConfig(key, value) ==
  /\ value # cfg[key]
  /\ cfg' = [cfg EXCEPT ![key] = value]
  /\ last' = NoCall
  /\ matched' = NoMatch
  /\ UNCHANGED <<prevCfg, calls>>

VerifyApiKey(auth) ==
  LET api_key == get_admin_api_key(cfg)
      public_key == get_public_api_key(cfg)
      reached == verify_api_key_first(auth, api_key) = Pending
  IN /\ last' = [NoCall EXCEPT !.op = "verify_api_key", !.auth = auth,
                   !.result = verify_api_key(auth, cfg),
                   !.reads = IF reached THEN {"api_key", "public_key"}
                             ELSE {"api_key"},
                   !.api_key = api_key,
                   !.public_key = IF reached THEN public_key ELSE <<>>]
     /\ matched' = IF reached THEN Match(auth.s, public_key) ELSE NoMatch
     /\ UNCHANGED <<cfg, prevCfg, calls>>

VerifyAppKey(auth) ==
  /\ last' = [NoCall EXCEPT !.op = "verify_app_key", !.auth = auth,
                !.result = verify_app_key(auth, cfg),
                !.reads = {"app_key"}, !.app_key = get_app_key(cfg)]
  /\ matched' = NoMatch
  /\ UNCHANGED <<cfg, prevCfg, calls>>

VerifyPublicKey(auth) ==
  LET public_key == get_public_api_key(cfg)
      public_enabled == is_public_enabled(cfg)
  IN /\ last' = [NoCall EXCEPT !.op = "verify_public_key", !.auth = auth,
                   !.result = verify_public_key(auth, cfg),
                   !.reads = {"public_key", "public_enabled"},
                   !.public_key = public_key,
                   !.public_enabled = public_enabled]
     /\ matched' = IF public_key # <<>> /\ Truthy(auth)
                   THEN Match(auth.s, public_key) ELSE NoMatch
     /\ UNCHANGED <<cfg, prevCfg, calls>>

Next ==
  \/ \E key \in StringSettings : \E value \in ConfigStrings(key) : SetConfig(key, value)
  \/ \E value \in ConfigFlags : SetConfig("public_enabled", value)
  \/ \E auth \in Presented : VerifyApiKey(auth)
  \/ \E auth \in Presented : VerifyAppKey(auth)
  \/ \E auth \in Presented : VerifyPublicKey(auth)

Spec == Init /\ [][Next]_vars

(***************************************************************************)
(* SpecConc: handlers interleave with each other and with reloads.  Each   *)
(* get_config call is one atomic read and auth.py holds nothing still      *)
(* between two of them, so a handler takes one step per configuration      *)
(* read; a reload replaces all settings at once.                           *)
(***************************************************************************)
FirstPc(op) ==
  CASE op = "verify_api_key" -> "api_key:87"
    [] op = "verify_app_key" -> "app_key:122"
    [] op = "verify_public_key" -> "public_key:156"

\* the handler of call c returns or raises: its outcome becomes the latest
Finish(c, result, reads, api_key, app_key, public_key, public_enabled) ==
  /\ last' = [op |-> calls[c].op, auth |-> calls[c].auth, result |-> result,
              nre |-> calls[c].nre, reads |-> reads, api_key |-> api_key,
              app_key |-> app_key, public_key |-> public_key,
              public_enabled |-> public_enabled]
  /\ calls' = [calls EXCEPT ![c] = Idle]

\* a request reaches a handler
Begin(c, op, auth) ==
  /\ calls[c].pc = "idle"
  /\ calls' = [calls EXCEPT ![c] = [Idle EXCEPT !.pc = FirstPc(op), !.op = op,
                                                  !.auth = auth]]
  /\ UNCHANGED <<cfg, prevCfg, last, matched>>

\* verify_api_key, lines 87-100
ApiKeyRead(c) ==
  /\ calls[c].pc = "api_key:87"
  /\ LET api_key == get_admin_api_key(cfg)
         first == verify_api_key_first(calls[c].auth, api_key)
     IN IF first = Pending
        THEN /\ calls' = [calls EXCEPT ![c].pc = "api_key:103",
                                       ![c].api_key = api_key]
             /\ UNCHANGED <<last, matched>>
        ELSE /\ Finish(c, first, {"api_key"}, api_key, <<>>, <<>>, FALSE)
             /\ matched' = NoMatch
  /\ UNCHANGED <<cfg, prevCfg>>

\* verify_api_key, lines 103-111
ApiPublicKeyRead(c) ==
  /\ calls[c].pc = "api_key:103"
  /\ LET public_key == get_public_api_key(cfg)
     IN /\ Finish(c, verify_api_key_second(calls[c].auth, public_key),
                  {"api_key", "public_key"}, calls[c].api_key, <<>>, public_key,
                  FALSE)
        /\ matched' = Match(calls[c].auth.s, public_key)
  /\ UNCHANGED <<cfg, prevCfg>>

\* verify_app_key, lines 122-145
AppKeyRead(c) ==
  /\ calls[c].pc = "app_key:122"
  /\ Finish(c, verify_app_key(calls[c].auth, cfg), {"app_key"}, <<>>,
            get_app_key(cfg), <<>>, FALSE)
  /\ matched' = NoMatch
  /\ UNCHANGED <<cfg, prevCfg>>

\* verify_public_key, line 156
PublicKeyRead(c) ==
  /\ calls[c].pc = "public_key:156"
  /\ calls' = [calls EXCEPT ![c].pc = "public_key:157",
                            ![c].public_key = get_public_api_key(cfg)]
  /\ UNCHANGED <<cfg, prevCfg, last, matched>>

\* a variant that keeps public_key in one module-level variable shared by
\* the calls in flight: the latest read by any of them wins
PublicEnabledRead_shared(c) ==
  /\ calls[c].pc = "public_key:157"
  /\ LET others == { d \in CallIds \ {c} : calls[d].pc = "public_key:157" }
         public_key == IF others = {} THEN calls[c].public_key
                       ELSE calls[CHOOSE d \in others : TRUE].public_key
         public_enabled == is_public_enabled(cfg)
     IN /\ last' = [op |-> calls[c].op, auth |-> calls[c].auth,
                    result |-> verify_public_key_decide(calls[c].auth, public_key,
                                                        public_enabled),
                    nre |-> calls[c].nre, reads |-> {"public_key", "public_enabled"},
                    api_key |-> <<>>, app_key |-> <<>>,
                    public_key |-> calls[c].public_key,
                    public_enabled |-> public_enabled]
        /\ calls' = [calls EXCEPT ![c] = Idle]
        /\ matched' = NoMatch
  /\ UNCHANGED <<cfg, prevCfg>>

\* verify_public_key, lines 157-182
PublicEnabledRead(c) ==
  /\ calls[c].pc = "public_key:157"
  /\ LET public_key == calls[c].public_key
         public_enabled == is_public_enabled(cfg)
     IN /\ Finish(c, verify_public_key_decide(calls[c].auth, public_key,
                                               public_enabled),
                  {"public_key", "public_enabled"}, <<>>, <<>>, public_key,
                  public_enabled)
        /\ matched' = IF public_key # <<>> /\ Truthy(calls[c].auth)
                      THEN Match(calls[c].auth.s, public_key) ELSE NoMatch
  /\ UNCHANGED <<cfg, prevCfg>>

Min(a, b) == IF a < b THEN a ELSE b

\* the external mechanism reloads the configuration: every setting changes
\* in one step; each call in flight has seen one more reload
Reload(config) ==
  /\ config # cfg
  /\ prevCfg' = <<cfg>>
  /\ cfg' = config
  /\ calls' = [c \in CallIds |->
                 IF calls[c].pc = "idle" THEN calls[c]
                 ELSE [calls[c] EXCEPT !.nre = Min(@ + 1, MaxReloadsTracked)]]
  /\ last' = NoCall
  /\ matched' = NoMatch

NextConc ==
  \/ \E config \in ConcConfigs : Reload(config)
  \/ \E c \in CallIds, op \in Ops, auth \in ConcPresented : Begin(c, op, auth)
  \/ \E c \in CallIds : ApiKeyRead(c)
  \/ \E c \in CallIds : ApiPublicKeyRead(c)
  \/ \E c \in CallIds : AppKeyRead(c)
  \/ \E c \in CallIds : PublicKeyRead(c)
  \/ \E c \in CallIds : PublicEnabledRead(c)

SpecConc == Init /\ [][NextConc]_vars

(***************************************************************************)
(* The stated properties.  Their vocabulary is the specification's: a      *)
(* Secret is configured iff it is non-empty after trimming; the outcomes   *)
(* are success with or without an identity and the four failures.          *)
(***************************************************************************)
Trim(str) == Strip(str)

Configured(secret) == Trim(secret) # <<>>

\* "public-" followed by the lowercase hex digest of "grok2api-public:" + trim(s)
PublicHashOf(secret) == PublicPrefix \o Sha256Hex(HashMarker \o Trim(secret))

\* CredentialMatcher accepts x against secret s
Accepts(x, secret) ==
  /\ Configured(secret)
  /\ x = Trim(secret) \/ x = PublicHashOf(secret)

Success(identity) ==
  [ok |-> TRUE, value |-> identity, status_code |-> 0, detail |-> "", headers |-> {}]

Failure(detail) ==
  [ok |-> FALSE, value |-> PyNone, status_code |-> 401, detail |-> detail,
   headers |-> {<<"WWW-Authenticate", "Bearer">>}]

MissingCredential == Failure("Missing authentication token")
InvalidCredential == Failure("Invalid authentication token")
NotConfigured == Failure("App key is not configured")
AccessDisabled == Failure("Public access is disabled")

Absent(auth) == auth = PyNone

\* the settings of a configuration, as the specification names them:
\* app.api_key (default empty), app.app_key (default "grok2api"),
\* app.public_key (default empty), app.public_enabled (default false)
StringSetting(config, key, default) ==
  IF config[key].tag = "missing" THEN default
  ELSE IF config[key].tag = "str" THEN config[key].s
  ELSE <<>>

AdminKey(config) == StringSetting(config, "api_key", <<>>)
LoginKey(config) ==
  StringSetting(config, "app_key", <<"g", "r", "o", "k", "2", "a", "p", "i">>)
PublicKey(config) == StringSetting(config, "public_key", <<>>)
PublicEnabledFlag(config) ==
  config.public_enabled.tag = "bool" /\ config.public_enabled.b

\* C1: the matcher returns true iff trim(s) is non-empty and x is trim(s) or
\* the public-<hash> form of trim(s); never against an empty or
\* whitespace-only secret
C1_MatcherExact ==
  matched.called =>
    (matched.result <=>
       /\ Trim(matched.public_key) # <<>>
       /\ \/ matched.credentials = Trim(matched.public_key)
          \/ matched.credentials = PublicHashOf(matched.public_key))

\* the hash form of a secret configured with whitespace around it is accepted
C1_Witness ==
  /\ matched.called
  /\ matched.result
  /\ matched.public_key # Trim(matched.public_key)
  /\ matched.credentials = PublicHashOf(matched.public_key)

\* C2: with AdminKey empty after trimming, verify_api_key succeeds with no
\* identity for every presented credential
C2_AdminUnsetIsOpen ==
  (last.op = "verify_api_key" /\ ~Configured(AdminKey(cfg)))
    => last.result = Success(PyNone)

\* C3: with AdminKey configured, verify_api_key fails MissingCredential when
\* the credential is absent, succeeds with the credential iff it equals
\* AdminKey or the matcher accepts it against PublicKey, and fails
\* InvalidCredential otherwise; whatever verify_public_key accepts against
\* a configured PublicKey, verify_api_key accepts too
C3_AdminConfigured ==
  last.op = "verify_api_key" =>
    /\ Configured(AdminKey(cfg)) =>
         last.result =
           IF Absent(last.auth) THEN MissingCredential
           ELSE IF \/ last.auth.s = AdminKey(cfg)
                   \/ Accepts(last.auth.s, PublicKey(cfg))
                THEN Success(PyStr(last.auth.s))
           ELSE InvalidCredential
    /\ (~Absent(last.auth) /\ Accepts(last.auth.s, PublicKey(cfg)))
         => last.result.ok

\* tier overlap: a credential other than AdminKey is let in by the public key
C3_Witness ==
  /\ last.op = "verify_api_key"
  /\ Configured(AdminKey(cfg))
  /\ ~Absent(last.auth)
  /\ last.auth.s # AdminKey(cfg)
  /\ last.auth.s = PublicHashOf(PublicKey(cfg))
  /\ last.result = Success(PyStr(last.auth.s))

\* C4: with PublicKey empty after trimming, verify_public_key depends on the
\* flag alone: open when true, AccessDisabled when false
C4_PublicUnsetFlagOnly ==
  (last.op = "verify_public_key" /\ ~Configured(PublicKey(cfg)))
    => last.result = IF PublicEnabledFlag(cfg) THEN Success(PyNone)
                     ELSE AccessDisabled

\* C5: with PublicKey configured, verify_public_key ignores the flag: absent
\* fails MissingCredential, a credential the matcher accepts succeeds and is
\* returned, any other fails InvalidCredential
C5_PublicConfigured ==
  (last.op = "verify_public_key" /\ Configured(PublicKey(cfg)))
    => last.result =
         IF Absent(last.auth) THEN MissingCredential
         ELSE IF Accepts(last.auth.s, PublicKey(cfg))
              THEN Success(PyStr(last.auth.s))
         ELSE InvalidCredential

\* a wrong credential is refused although the flag is on
C5_Witness ==
  /\ last.op = "verify_public_key"
  /\ Configured(PublicKey(cfg))
  /\ PublicEnabledFlag(cfg)
  /\ ~Absent(last.auth)
  /\ last.result = InvalidCredential

\* C6: with LoginKey empty after trimming, verify_app_key fails NotConfigured
\* for every presented credential
C6_LoginUnsetNotConfigured ==
  (last.op = "verify_app_key" /\ ~Configured(LoginKey(cfg)))
    => last.result = NotConfigured

\* C7: with LoginKey configured, verify_app_key succeeds iff the credential
\* is present and equals LoginKey; absent fails MissingCredential, any other
\* (the public-<hash> form of LoginKey included) fails InvalidCredential
C7_LoginConfigured ==
  (last.op = "verify_app_key" /\ Configured(LoginKey(cfg)))
    => last.result =
         IF Absent(last.auth) THEN MissingCredential
         ELSE IF last.auth.s = LoginKey(cfg) THEN Success(PyStr(last.auth.s))
         ELSE InvalidCredential

\* the public-<hash> form of the login key is refused
C7_Witness ==
  /\ last.op = "verify_app_key"
  /\ Configured(LoginKey(cfg))
  /\ ~Absent(last.auth)
  /\ last.auth.s = PublicHashOf(LoginKey(cfg))
  /\ last.result = InvalidCredential

\* C9: a call ends in success or in one of the four failures; a failure has
\* status 401 and WWW-Authenticate: Bearer; NotConfigured comes only from
\* verify_app_key and AccessDisabled only from verify_public_key
C9_Outcomes ==
  last.op # "none" =>
    \/ /\ last.result.ok
       /\ last.result = Success(last.result.value)
       /\ last.result.value \in {PyNone, PyStr(last.auth.s)}
    \/ /\ ~last.result.ok
       /\ last.result \in
            {MissingCredential, InvalidCredential, NotConfigured, AccessDisabled}
       /\ last.result = NotConfigured => last.op = "verify_app_key"
       /\ last.result = AccessDisabled => last.op = "verify_public_key"

\* the public tier answers AccessDisabled to a request that carries a token
C9_Witness ==
  /\ last.op = "verify_public_key"
  /\ ~Absent(last.auth)
  /\ last.result = AccessDisabled

(***************************************************************************)
(* Reloads and interleaving (SpecConc)                                     *)
(***************************************************************************)
\* a handler's own test of an unset secret is the empty string; C2, C4 and
\* C6 are about the whitespace-only secret, where this differs from Trim
Unset(secret) == secret = <<>>

\* the outcome of an uninterrupted call under one configuration: the tier
\* policy, a secret being unset as above
TierOutcome(op, auth, config) ==
  CASE op = "verify_api_key" ->
         IF Unset(AdminKey(config)) THEN Success(PyNone)
         ELSE IF Absent(auth) THEN MissingCredential
         ELSE IF \/ auth.s = AdminKey(config)
                 \/ Accepts(auth.s, PublicKey(config))
              THEN Success(PyStr(auth.s))
         ELSE InvalidCredential
    [] op = "verify_app_key" ->
         IF Unset(LoginKey(config)) THEN NotConfigured
         ELSE IF Absent(auth) THEN MissingCredential
         ELSE IF auth.s = LoginKey(config) THEN Success(PyStr(auth.s))
         ELSE InvalidCredential
    [] op = "verify_public_key" ->
         IF Unset(PublicKey(config))
         THEN IF PublicEnabledFlag(config) THEN Success(PyNone) ELSE AccessDisabled
         ELSE IF Absent(auth) THEN MissingCredential
         ELSE IF Accepts(auth.s, PublicKey(config)) THEN Success(PyStr(auth.s))
         ELSE InvalidCredential

\* the settings a call would see when the reload falls between its two
\* reads: the first from the old configuration, the second from the new
TornConfig(op, old, new) ==
  CASE op = "verify_api_key" -> [new EXCEPT !.api_key = old.api_key]
    [] op = "verify_public_key" -> [new EXCEPT !.public_key = old.public_key]
    [] OTHER -> new

C10_OldOrNew ==
  (last.op \in {"verify_api_key", "verify_public_key"} /\ last.nre = 1) =>
    last.result \in { TierOutcome(last.op, last.auth, prevCfg[1]),
                      TierOutcome(last.op, last.auth, cfg) }

\* C10, amended: a call that ran across at most one reload ends as the
\* settings it read decide, each read being the old or the new value of
\* its setting and never an older one: the outcome is that of the old
\* configuration, of the new one, or of the first-read setting of the old
\* with the second-read setting of the new; calls in flight together do
\* not change this
C10_PerFieldReads ==
  /\ (last.op # "none" /\ last.nre = 0) =>
       last.result = TierOutcome(last.op, last.auth, cfg)
  /\ (last.op # "none" /\ last.nre = 1) =>
       last.result \in
         { TierOutcome(last.op, last.auth, prevCfg[1]),
           TierOutcome(last.op, last.auth, cfg),
           TierOutcome(last.op, last.auth, TornConfig(last.op, prevCfg[1], cfg)) }

\* a call across one reload whose outcome neither complete configuration gives
C10_Witness ==
  /\ last.op \in {"verify_api_key", "verify_public_key"}
  /\ last.nre = 1
  /\ last.result # TierOutcome(last.op, last.auth, prevCfg[1])
  /\ last.result # TierOutcome(last.op, last.auth, cfg)
  /\ last.result =
       TierOutcome(last.op, last.auth, TornConfig(last.op, prevCfg[1], cfg))

====
